---- MODULE Spec2Model ----
(***************************************************************************)
(* Model of the Dashboard component of src/app/dashboard/page.tsx: the     *)
(* React state of the component, the asynchronous fetchGitHubData handler  *)
(* (one state-machine instance per click, suspended at each await), the    *)
(* paginate handler and the values derived from the state on each render   *)
(* (sorted repositories, language tally, current page, summary sentence).  *)
(***************************************************************************)
EXTENDS Integers, Sequences, FiniteSets, TLC

VARIABLES
    username,     \* useState("")      text of the input box
    data,         \* useState(null)    the profile shown
    repos,        \* useState([])      the repositories shown
    error,        \* useState("")      the error message shown
    loading,      \* useState(true)    skeleton flag
    currentPage,  \* useState(1)       1-indexed page
    aiSummary,    \* useState("")      summary sentence, a sequence of string pieces
    calls,        \* the invocations of fetchGitHubData, in trigger order
    requests,     \* history: number of fetch() requests issued so far
    received,     \* history: reposData as parsed, behind the repositories shown (<<>>: cleared)
    shownBy,      \* history: which invocation wrote data / repos / aiSummary (0: cleared)
    lastOp        \* history: the handler or continuation that ran last

vars == <<username, data, repos, error, loading, currentPage, aiSummary,
          calls, requests, received, shownBy, lastOp>>

view == <<data, repos, currentPage, error, loading, aiSummary>>

----------------------------------------------------------------------------
(* Bounds of the model *)

MaxSearches == 2        \* invocations of fetchGitHubData in one behaviour
MaxRepos == 11          \* longest repository list the API returns in Spec
MaxShapeLen == 4        \* longest repository list the API returns in ShapeSpec
MaxTime == 1            \* updated_at timestamps range over 0..MaxTime in ShapeSpec

(* Program constant *)
reposPerPage == 10

----------------------------------------------------------------------------
(* JavaScript values *)

NULL == "<null>"                  \* null / undefined in a string-typed field
null == [isNull |-> TRUE]         \* null in the object-typed state `data`
EmptyString == <<>>               \* "" for strings kept as sequences of pieces

\* JavaScript truthiness of a string-or-null value: null, undefined and "" are falsy
Truthy(x) == x # NULL /\ x # ""

\* Math.ceil(a / b) for a >= 0, b > 0
Ceil(a, b) == (a + b - 1) \div b

Min(a, b) == IF a < b THEN a ELSE b
Max(a, b) == IF a > b THEN a ELSE b

\* Array.prototype.slice(start, end): negative indices count from the end,
\* both are clipped to [0, length]; elements start <= k < end (0-based)
slice(arr, start, end) ==
    LET len == Len(arr)
        s == IF start < 0 THEN Max(len + start, 0) ELSE Min(start, len)
        e == IF end < 0 THEN Max(len + end, 0) ELSE Min(end, len)
    IN  IF e > s THEN [i \in 1..(e - s) |-> arr[s + i]] ELSE <<>>

----------------------------------------------------------------------------
(* The remote API *)

Usernames == {"ada", "bob"}
Inputs == {""} \cup Usernames

\* GET /users/{username}: the profile record of a user
Profile(u) ==
    [login |-> u,
     name |-> IF u = "ada" THEN "Ada Lovelace" ELSE NULL,
     created_at |-> IF u = "ada" THEN <<2015, 6, 1>> ELSE <<2020, 2, 29>>,
     public_repos |-> IF u = "ada" THEN 2 ELSE 0,
     followers |-> IF u = "ada" THEN 10 ELSE 0,
     following |-> IF u = "ada" THEN 1 ELSE 3,
     repos_url |-> <<"repos", u>>]

Languages == {"TypeScript", "Go"}

\* A repository list of n entries owned by u, ids unique, not sorted, with ties
RepoList(u, n) ==
    [i \in 1..n |->
        [id |-> (IF u = "ada" THEN 100 ELSE 200) + i,
         name |-> u \o "-" \o ToString(i),
         stargazers_count |-> (i * 5) % 7,
         language |-> IF i % 3 = 0 THEN NULL
                      ELSE IF i % 3 = 1 THEN "TypeScript" ELSE "Go",
         updated_at |-> (i * 3) % 4]]

\* GET {repos_url}: what the API can answer in Spec: no repository, one, a full
\* page, and every length beyond one page up to MaxRepos
RepoCounts == {0, 1} \cup (reposPerPage..MaxRepos)
RepoResponses(u) == {RepoList(u, n) : n \in RepoCounts}

\* GET {repos_url}: what the API can answer in ShapeSpec: every list of at most
\* MaxShapeLen repositories over all timestamps and languages (null included)
ShapeFields == (0..MaxTime) \X (Languages \cup {NULL})
ShapeSeqs == UNION {[1..n -> ShapeFields] : n \in 0..MaxShapeLen}
ShapeResponses(u) ==
    {[i \in 1..Len(f) |->
        [id |-> i,
         name |-> u \o "-" \o ToString(i),
         stargazers_count |-> i,
         language |-> f[i][2],
         updated_at |-> f[i][1]]] : f \in ShapeSeqs}

\* Ways a request can fail: a non-2xx status, or a rejected promise
NetworkError == "Failed to fetch"

----------------------------------------------------------------------------
(* Pure functions of the component *)

\* new Date(updated_at).getTime()
getTime(t) == t

\* (mutation) the comparator with its operands swapped: ascending order
compareFnAscending(a, b) == getTime(a.updated_at) - getTime(b.updated_at)

\* the comparator handed to sort(): negative puts a before b
compareFn(a, b) == getTime(b.updated_at) - getTime(a.updated_at)

\* one insertion of a stable sort: x goes after every element that does not
\* compare greater than it
RECURSIVE insertSorted(_, _)
insertSorted(sorted, x) ==
    IF sorted = <<>> THEN <<x>>
    ELSE IF compareFn(Head(sorted), x) <= 0
         THEN <<Head(sorted)>> \o insertSorted(Tail(sorted), x)
         ELSE <<x>> \o sorted

\* reposData.sort(compareFn): Array.prototype.sort is stable
RECURSIVE sortFrom(_, _)
sortFrom(acc, rest) ==
    IF rest = <<>> THEN acc
    ELSE sortFrom(insertSorted(acc, Head(rest)), Tail(rest))

sortedRepos(reposData) == sortFrom(<<>>, reposData)

\* new Date(created_at).getFullYear()
getFullYear(t) == t[1]

\* ${repos[0]?.name} and ${repos[0]?.stargazers_count} inside a template literal:
\* undefined is rendered as the text "undefined"
firstRepoName(rs) == IF Len(rs) = 0 THEN "undefined" ELSE rs[1].name
firstRepoStars(rs) == IF Len(rs) = 0 THEN "undefined" ELSE ToString(rs[1].stargazers_count)

\* the sentence built by generateAiSummary, as the sequence of its pieces
summary(userData, rs) ==
    <<"This GitHub profile belongs to ",
      IF Truthy(userData.name) THEN userData.name ELSE userData.login,
      ", who joined GitHub in ", ToString(getFullYear(userData.created_at)),
      ". They have ", ToString(userData.public_repos), " public repositories, ",
      ToString(userData.followers), " followers, and are following ",
      ToString(userData.following), " users.",
      " Their most popular repository is \"", firstRepoName(rs),
      "\" with ", firstRepoStars(rs), " stars.">>

\* acc[key] || 0 on the tally object, kept as a sequence of <<key, count>> in
\* insertion order
RECURSIVE tallyGet(_, _)
tallyGet(acc, key) ==
    IF acc = <<>> THEN 0
    ELSE IF Head(acc)[1] = key THEN Head(acc)[2] ELSE tallyGet(Tail(acc), key)

\* acc[key] = value: overwrite in place, or append a new key
RECURSIVE tallySet(_, _, _)
tallySet(acc, key, value) ==
    IF acc = <<>> THEN <<(<<key, value>>)>>
    ELSE IF Head(acc)[1] = key THEN <<(<<key, value>>)>> \o Tail(acc)
         ELSE <<Head(acc)>> \o tallySet(Tail(acc), key, value)

\* (mutation) the reducer without its `if (repo.language)` guard
tallyStepUnguarded(acc, repo) ==
    tallySet(acc, repo.language, tallyGet(acc, repo.language) + 1)

\* the reducer of languageUsage
tallyStep(acc, repo) ==
    IF Truthy(repo.language)
    THEN tallySet(acc, repo.language, tallyGet(acc, repo.language) + 1)
    ELSE acc

RECURSIVE reduceTally(_, _)
reduceTally(acc, rs) ==
    IF rs = <<>> THEN acc ELSE reduceTally(tallyStep(acc, Head(rs)), Tail(rs))

languageUsage == reduceTally(<<>>, repos)

\* Object.keys(languageUsage).map(...): the fill colour is cosmetic and left out
donutChartData ==
    [k \in 1..Len(languageUsage) |->
        [language |-> languageUsage[k][1], count |-> languageUsage[k][2]]]

RECURSIVE sumCounts(_)
sumCounts(chart) ==
    IF chart = <<>> THEN 0 ELSE Head(chart).count + sumCounts(Tail(chart))

totalLanguages == sumCounts(donutChartData)

\* Pagination logic, for a page number p
indexOfLastRepo(p) == p * reposPerPage
\* (mutation) the first index one too far
indexOfFirstRepoOffByOne(p) == indexOfLastRepo(p) - reposPerPage + 1
indexOfFirstRepo(p) == indexOfLastRepo(p) - reposPerPage
pageOf(rs, p) == slice(rs, indexOfFirstRepo(p), indexOfLastRepo(p))
currentRepos == pageOf(repos, currentPage)

\* number of pagination buttons rendered
pageCount(rs) == Ceil(Len(rs), reposPerPage)

\* the pagination buttons are rendered inside `loading ? skeleton : data && (...)`
pageButtons == IF ~loading /\ data # null THEN 1..pageCount(repos) ELSE {}

----------------------------------------------------------------------------
(* State machine *)

InFlight == {s \in 1..Len(calls) : calls[s].pc \notin {"committed", "failed"}}

Init ==
    /\ username = ""
    /\ data = null
    /\ repos = <<>>
    /\ error = ""
    /\ loading = TRUE
    /\ currentPage = 1
    /\ aiSummary = EmptyString
    /\ calls = <<>>
    /\ requests = 0
    /\ received = <<>>
    /\ shownBy = [data |-> 0, repos |-> 0, summary |-> 0]
    /\ lastOp = [op |-> "init", id |-> 0, info |-> ""]

\* onChange of the input box
setUsername(v) ==
    /\ v # username
    /\ username' = v
    /\ lastOp' = [op |-> "setUsername", id |-> 0, info |-> ""]
    /\ UNCHANGED <<data, repos, error, loading, currentPage, aiSummary,
                   calls, requests, received, shownBy>>

\* (mutation) the empty-username check placed after the clearing statements
fetchEmptyClears ==
    /\ ~Truthy(username)
    /\ error' = ""
    /\ data' = null
    /\ repos' = <<>>
    /\ aiSummary' = EmptyString
    /\ shownBy' = [data |-> 0, repos |-> 0, summary |-> 0]
    /\ lastOp' = [op |-> "fetchEmpty", id |-> 0, info |-> ""]
    /\ received' = <<>>
    /\ UNCHANGED <<username, loading, currentPage, calls, requests>>

\* fetchGitHubData with an empty username: `if (!username) return;`
fetchEmpty ==
    /\ ~Truthy(username)
    /\ lastOp' = [op |-> "fetchEmpty", id |-> 0, info |-> ""]
    /\ UNCHANGED <<username, data, repos, error, loading, currentPage, aiSummary,
                   calls, requests, received, shownBy>>

\* (mutation) the clearing block without setRepos([])
fetchStartKeepsRepos(limit) ==
    /\ Truthy(username)
    /\ Len(calls) < limit
    /\ error' = ""
    /\ data' = null
    /\ aiSummary' = EmptyString
    /\ shownBy' = [shownBy EXCEPT !.data = 0, !.summary = 0]
    /\ requests' = requests + 1
    /\ calls' = Append([s \in 1..Len(calls) |->
                          IF s \in InFlight
                          THEN [calls[s] EXCEPT !.peers = @ \cup {Len(calls) + 1}]
                          ELSE calls[s]],
                       [pc |-> "fetchUser", username |-> username,
                        userData |-> null, peers |-> InFlight])
    /\ received' = <<>>
    /\ lastOp' = [op |-> "fetch", id |-> Len(calls) + 1, info |-> ""]
    /\ UNCHANGED <<username, repos, loading, currentPage>>

\* fetchGitHubData up to its first await: clear the four states, issue the
\* profile request
fetchStart(limit) ==
    /\ Truthy(username)
    /\ Len(calls) < limit
    /\ error' = ""
    /\ data' = null
    /\ repos' = <<>>
    /\ aiSummary' = EmptyString
    /\ shownBy' = [data |-> 0, repos |-> 0, summary |-> 0]
    /\ requests' = requests + 1
    /\ calls' = Append([s \in 1..Len(calls) |->
                          IF s \in InFlight
                          THEN [calls[s] EXCEPT !.peers = @ \cup {Len(calls) + 1}]
                          ELSE calls[s]],
                       [pc |-> "fetchUser", username |-> username,
                        userData |-> null, peers |-> InFlight])
    /\ received' = <<>>
    /\ lastOp' = [op |-> "fetch", id |-> Len(calls) + 1, info |-> ""]
    /\ UNCHANGED <<username, loading, currentPage>>

\* (mutation) a catch block that also drops the profile, and nothing else
catchClearsProfile(s, kind, message) ==
    /\ error' = message
    /\ data' = null
    /\ shownBy' = [shownBy EXCEPT !.data = 0]
    /\ loading' = FALSE
    /\ calls' = [calls EXCEPT ![s].pc = "failed"]
    /\ lastOp' = [op |-> "fail", id |-> s, info |-> kind]
    /\ UNCHANGED <<username, repos, currentPage, aiSummary, requests, received>>

\* catch (err) { setError(err.message) } finally { setLoading(false) }
\* (kind names the await that threw and how, for the history only)
catch(s, kind, message) ==
    /\ error' = message
    /\ loading' = FALSE
    /\ calls' = [calls EXCEPT ![s].pc = "failed"]
    /\ lastOp' = [op |-> "fail", id |-> s, info |-> kind]
    /\ UNCHANGED <<username, data, repos, currentPage, aiSummary,
                   requests, received, shownBy>>

\* a continuation that only moves the invocation to its next await
advance(s, pc, userData, issued) ==
    /\ calls' = [calls EXCEPT ![s].pc = pc, ![s].userData = userData]
    /\ requests' = requests + issued
    /\ lastOp' = [op |-> "resume", id |-> 0, info |-> ""]
    /\ UNCHANGED <<username, data, repos, error, loading, currentPage, aiSummary,
                   received, shownBy>>

\* `await fetch(users/username)` settles
userResponse(s) ==
    /\ s \in InFlight /\ calls[s].pc = "fetchUser"
    /\ \E outcome \in {"ok", "notOk", "reject"} :
         CASE outcome = "ok" -> advance(s, "jsonUser", null, 0)
           [] outcome = "notOk" -> catch(s, "userNotOk", "User not found")
           [] outcome = "reject" -> catch(s, "reject", NetworkError)

\* (mutation) the profile displayed as soon as it is parsed, before the
\* repository request
userJsonEager(s) ==
    /\ s \in InFlight /\ calls[s].pc = "jsonUser"
    /\ \/ /\ data' = Profile(calls[s].username)
          /\ shownBy' = [shownBy EXCEPT !.data = s]
          /\ calls' = [calls EXCEPT ![s].pc = "fetchRepos",
                                    ![s].userData = Profile(calls[s].username)]
          /\ requests' = requests + 1
          /\ lastOp' = [op |-> "resume", id |-> 0, info |-> ""]
          /\ UNCHANGED <<username, repos, error, loading, currentPage, aiSummary,
                         received>>
       \/ catch(s, "reject", NetworkError)

\* `await res.json()` settles; on success the repository request is issued
userJson(s) ==
    /\ s \in InFlight /\ calls[s].pc = "jsonUser"
    /\ \E outcome \in {"ok", "reject"} :
         CASE outcome = "ok" ->
                advance(s, "fetchRepos", Profile(calls[s].username), 1)
           [] outcome = "reject" -> catch(s, "reject", NetworkError)

\* `await fetch(userData.repos_url)` settles
reposResponse(s) ==
    /\ s \in InFlight /\ calls[s].pc = "fetchRepos"
    /\ \E outcome \in {"ok", "notOk", "reject"} :
         CASE outcome = "ok" -> advance(s, "jsonRepos", calls[s].userData, 0)
           [] outcome = "notOk" -> catch(s, "reposNotOk", "Repositories not found")
           [] outcome = "reject" -> catch(s, "reject", NetworkError)

\* (mutation) a request-generation token: only the invocation triggered last
\* may write its results
commitGuarded(s, reposData) ==
    LET userData == calls[s].userData
        sorted == sortedRepos(reposData)
        latest == s = Len(calls)
    IN  /\ data' = IF latest THEN userData ELSE data
        /\ repos' = IF latest THEN sorted ELSE repos
        /\ aiSummary' = IF latest THEN summary(userData, sorted) ELSE aiSummary
        /\ loading' = FALSE
        /\ received' = reposData
        /\ shownBy' = IF latest THEN [data |-> s, repos |-> s, summary |-> s] ELSE shownBy
        /\ calls' = [calls EXCEPT ![s].pc = "committed"]
        /\ lastOp' = [op |-> "commit", id |-> s, info |-> ""]
        /\ UNCHANGED <<username, error, currentPage, requests>>

\* the rest of the try block once reposData is parsed: sort, setData, setRepos,
\* generateAiSummary, and the finally block
commit(s, reposData) ==
    LET userData == calls[s].userData
        sorted == sortedRepos(reposData)
    IN  /\ data' = userData
        /\ repos' = sorted
        /\ aiSummary' = summary(userData, sorted)
        /\ loading' = FALSE
        /\ received' = reposData
        /\ shownBy' = [data |-> s, repos |-> s, summary |-> s]
        /\ calls' = [calls EXCEPT ![s].pc = "committed"]
        /\ lastOp' = [op |-> "commit", id |-> s, info |-> ""]
        /\ UNCHANGED <<username, error, currentPage, requests>>

\* `await reposRes.json()` settles
reposJson(s, responses) ==
    /\ s \in InFlight /\ calls[s].pc = "jsonRepos"
    /\ \/ \E reposData \in responses : commit(s, reposData)
       \/ catch(s, "reject", NetworkError)

\* onClick of a rendered pagination button
paginate(pageNumber) ==
    /\ pageNumber \in pageButtons
    /\ currentPage' = pageNumber
    /\ lastOp' = [op |-> "paginate", id |-> 0, info |-> ""]
    /\ UNCHANGED <<username, data, repos, error, loading, aiSummary,
                   calls, requests, received, shownBy>>

TypeUsername == \E v \in Inputs : setUsername(v)
ClickSearchEmpty == fetchEmpty
ClickSearch == fetchStart(MaxSearches)
UserResponse == \E s \in 1..Len(calls) : userResponse(s)
UserJson == \E s \in 1..Len(calls) : userJson(s)
ReposResponse == \E s \in 1..Len(calls) : reposResponse(s)
ReposJson == \E s \in 1..Len(calls) : reposJson(s, RepoResponses(calls[s].username))
ClickPage == \E p \in 1..(pageCount(repos) + 1) : paginate(p)

Next ==
    \/ TypeUsername
    \/ ClickSearchEmpty
    \/ ClickSearch
    \/ UserResponse
    \/ UserJson
    \/ ReposResponse
    \/ ReposJson
    \/ ClickPage

Spec == Init /\ [][Next]_vars

\* The first search of the component, about to parse the repository answer of
\* an API that answers with every short repository list: the specification for
\* the claims about the data-shaping functions
ShapeInit ==
    /\ username \in Usernames
    /\ data = null
    /\ repos = <<>>
    /\ error = ""
    /\ loading = TRUE
    /\ currentPage = 1
    /\ aiSummary = EmptyString
    /\ calls = <<[pc |-> "jsonRepos", username |-> username,
                  userData |-> Profile(username), peers |-> {}]>>
    /\ requests = 2
    /\ received = <<>>
    /\ shownBy = [data |-> 0, repos |-> 0, summary |-> 0]
    /\ lastOp = [op |-> "resume", id |-> 0, info |-> ""]

ShapeReposJson == \E s \in 1..Len(calls) : reposJson(s, ShapeResponses(calls[s].username))

ShapeNext ==
    \/ ShapeReposJson
    \/ ClickPage

ShapeSpec == ShapeInit /\ [][ShapeNext]_vars

----------------------------------------------------------------------------
(* Properties *)

Fields == {"data", "repos", "summary"}

\* profile, repositories and summary are all empty
Cleared == data = null /\ repos = <<>> /\ aiSummary = EmptyString

\* the message each kind of failure puts in `error`
ExpectedMessage(kind) ==
    CASE kind = "userNotOk" -> "User not found"
      [] kind = "reposNotOk" -> "Repositories not found"
      [] OTHER -> NetworkError

\* C1: whenever the repository list is loaded (non-empty), currentPage lies in
\* 1..ceil(repositoryCount / pageSize); a new search resets it to 1.
C1_PageInRange ==
    repos # <<>> => currentPage \in 1..pageCount(repos)

\* C2 (as stated): a triggered search leaves error, profile, repositories and
\* summary empty, and while a search is in flight nothing written by a search
\* triggered before it is shown.
C2_NoEarlierResultsInFlight ==
    /\ lastOp.op = "fetch" => error = "" /\ Cleared
    /\ \A s \in InFlight : \A f \in Fields : shownBy[f] \notin 1..(s - 1)

\* C2 (amended): a triggered search leaves error, profile, repositories and
\* summary empty with its profile request issued; while a search is in flight
\* the only results shown are those committed by a search whose flight overlaps
\* it, and a search that overlaps no other shows none.
C2_ClearedUnlessOverlap ==
    /\ lastOp.op = "fetch" =>
          /\ error = "" /\ Cleared
          /\ calls[lastOp.id].pc = "fetchUser" /\ requests >= 1
    /\ \A s \in InFlight :
          /\ \A f \in Fields : shownBy[f] \in {0} \cup calls[s].peers
          /\ calls[s].peers = {} => Cleared

\* the second search runs alone after the first one committed: nothing is shown
C2_Witness ==
    /\ Len(calls) = 2 /\ calls[1].pc = "committed"
    /\ calls[2].pc = "jsonRepos" /\ calls[2].peers = {}
    /\ Cleared

\* C3 (as stated): right after a search fails, error holds the message of the
\* failure and profile, repositories and summary are all empty.
C3_FailLeavesCleared ==
    lastOp.op = "fail" =>
        /\ error = ExpectedMessage(lastOp.info) /\ error # ""
        /\ Cleared

\* C3 (amended): right after a search fails, error holds the message of the
\* failure, nothing the failed search fetched is shown, and profile,
\* repositories and summary are empty unless a search overlapping the failed
\* one committed them.
C3_FailShowsNothingOfItsOwn ==
    lastOp.op = "fail" =>
        /\ error = ExpectedMessage(lastOp.info) /\ error # ""
        /\ \A f \in Fields : shownBy[f] \in {0} \cup (calls[lastOp.id].peers \ {lastOp.id})
        /\ calls[lastOp.id].peers = {} => Cleared

\* the repository request of a search failed after its profile was fetched
C3_Witness ==
    /\ lastOp.op = "fail" /\ lastOp.info = "reposNotOk"
    /\ calls[lastOp.id].userData # null
    /\ error = "Repositories not found"
    /\ Cleared

\* C4: a search triggered with an empty identifier issues no request and
\* changes no field of the view state.
C4_EmptyIsNoOp ==
    [][lastOp'.op = "fetchEmpty" =>
          /\ view' = view
          /\ requests' = requests
          /\ calls' = calls
          /\ username' = username]_vars

\* the empty search is triggered while results are shown and a search is in flight
C4_Witness ==
    /\ lastOp.op = "fetchEmpty"
    /\ data # null /\ repos # <<>>
    /\ InFlight # {}

\* C5: a search that resolves successfully writes its profile, repositories and
\* summary whatever was triggered or resolved before it, so the search that
\* resolves last decides what is shown.
C5_LastResolvedWins ==
    lastOp.op = "commit" =>
        /\ data = Profile(calls[lastOp.id].username)
        /\ repos = sortedRepos(received)
        /\ aiSummary = summary(data, repos)
        /\ \A f \in Fields : shownBy[f] = lastOp.id

\* the first search resolves after the second one committed, and overwrites it
C5_Witness ==
    /\ lastOp.op = "commit" /\ lastOp.id = 1
    /\ Len(calls) >= 2 /\ calls[2].pc = "committed"
    /\ calls[2].username # calls[1].username
    /\ data.login = calls[1].username
    /\ shownBy.repos = 1

\* does the sentence carry the highlighted-repository clause, or the text undefined
HasHighlightClause(sentence) ==
    \E i \in 1..Len(sentence) :
        sentence[i] \in {" Their most popular repository is \"", "undefined"}

\* C6: a search that succeeds with an empty repository list produces a summary
\* without the highlighted-repository clause.
C6_EmptyListOmitsClause ==
    (lastOp.op = "commit" /\ received = <<>>) =>
        aiSummary # EmptyString /\ ~HasHighlightClause(aiSummary)

\* the position in the fetched sequence of a repository (ids are unique in it)
Origin(r) == CHOOSE k \in 1..Len(received) : received[k].id = r.id

\* C7: the repositories stored by a search are a permutation of the sequence the
\* repository fetch returned, non-increasing by updated_at, equal timestamps in
\* their original order.
C7_StableSortDescending ==
    lastOp.op = "commit" =>
        /\ Len(repos) = Len(received)
        /\ \A k \in 1..Len(received) : \E i \in 1..Len(repos) : repos[i] = received[k]
        /\ \A i \in 1..Len(repos) : \E k \in 1..Len(received) : repos[i] = received[k]
        /\ \A i, j \in 1..Len(repos) : i # j => repos[i].id # repos[j].id
        /\ \A i, j \in 1..Len(repos) :
              i < j =>
                /\ repos[i].updated_at >= repos[j].updated_at
                /\ repos[i].updated_at = repos[j].updated_at =>
                      Origin(repos[i]) < Origin(repos[j])

\* the fetched list was out of order and had two equal timestamps
C7_Witness ==
    /\ lastOp.op = "commit"
    /\ Len(received) >= 3
    /\ repos # received
    /\ \E i, j \in 1..Len(received) : i < j /\ received[i].updated_at < received[j].updated_at
    /\ \E i, j \in 1..Len(received) : i < j /\ received[i].updated_at = received[j].updated_at

RECURSIVE ConcatPages(_, _)
ConcatPages(rs, n) ==
    IF n = 0 THEN <<>> ELSE ConcatPages(rs, n - 1) \o pageOf(rs, n)

\* C8: every page 1..ceil(total / pageSize) is the slice
\* [(p-1)*pageSize, p*pageSize) clipped to the list, has at most pageSize
\* entries, and the pages in order give back the list, each repository once.
C8_PagesPartitionList ==
    /\ \A p \in 1..pageCount(repos) :
          LET lo == (p - 1) * reposPerPage
              hi == IF p * reposPerPage < Len(repos) THEN p * reposPerPage ELSE Len(repos)
              page == pageOf(repos, p)
          IN  /\ Len(page) = hi - lo
              /\ Len(page) <= reposPerPage
              /\ Len(page) >= 1
              /\ \A i \in 1..Len(page) : page[i] = repos[lo + i]
    /\ LET all == ConcatPages(repos, pageCount(repos))
       IN  /\ all = repos
           /\ \A i, j \in 1..Len(all) : i # j => all[i].id # all[j].id
    /\ currentPage \in 1..pageCount(repos) =>
          currentRepos = pageOf(repos, currentPage)

\* the second, shorter page of a list longer than one page is shown
C8_Witness ==
    /\ Len(repos) > reposPerPage
    /\ currentPage = 2
    /\ Len(currentRepos) = Len(repos) - reposPerPage
    /\ currentRepos[1] = repos[reposPerPage + 1]

\* C9: the language tally has one entry per distinct non-null language, each
\* counting the repositories of that language (at least one), null languages
\* in no entry, and the counts add up to the number of repositories with a
\* non-null language.
C9_TallyCountsLanguages ==
    LET withLanguage == {i \in 1..Len(repos) : repos[i].language # NULL}
        chart == donutChartData
    IN  /\ \A k, l \in 1..Len(chart) : k # l => chart[k].language # chart[l].language
        /\ {chart[k].language : k \in 1..Len(chart)} = {repos[i].language : i \in withLanguage}
        /\ \A k \in 1..Len(chart) :
              /\ chart[k].count >= 1
              /\ chart[k].count =
                    Cardinality({i \in withLanguage : repos[i].language = chart[k].language})
        /\ totalLanguages = Cardinality(withLanguage)

\* a list with a null language, a repeated language and a second language
C9_Witness ==
    /\ \E i \in 1..Len(repos) : repos[i].language = NULL
    /\ Len(donutChartData) = 2
    /\ \E k \in 1..Len(donutChartData) : donutChartData[k].count >= 2
    /\ totalLanguages = Len(repos) - 1

\* C10: profile, repositories and summary are either all empty, or all three
\* written by one search: the repositories are a sorted list of the profile's
\* owner and the summary is the sentence of that profile and that list.
C10_WrittenTogether ==
    \/ /\ Cleared
       /\ \A f \in Fields : shownBy[f] = 0
    \/ /\ data # null
       /\ shownBy.data \in 1..Len(calls)
       /\ shownBy.repos = shownBy.data /\ shownBy.summary = shownBy.data
       /\ data = Profile(calls[shownBy.data].username)
       /\ repos = sortedRepos(RepoList(data.login, Len(repos)))
       /\ aiSummary = summary(data, repos)

\* results are shown on page 2 while another search is in flight
C10_Witness ==
    /\ data # null /\ repos # <<>>
    /\ currentPage = 2
    /\ InFlight # {}
    /\ lastOp.op = "paginate"
====
